---- MODULE Spec2Model ----
(***************************************************************************)
(* A model of the two scripts of smilee-v2-contracts:                      *)
(*   test/invariants/crytictofoundry.py  (the Trace Converter)             *)
(*   create_dict.py                      (the AddressBook Builder)         *)
(* Text is a sequence of one-character strings; the regular-expression     *)
(* substitutions are computed left to right, greedy, non-overlapping, as   *)
(* Python's re.sub computes them.                                          *)
(***************************************************************************)
EXTENDS Integers, Sequences, FiniteSets, TLC

VARIABLES
    pc,        \* position of the running script
    argv,      \* sys.argv of the Trace Converter (argv[1] is the script name)
    example,   \* content of example.txt, or NoFile
    target,    \* folder -> content of <folder>/CryticToFoundry.t.sol, or NoFile
    folder,    \* crytictofoundry.py: module-level folder
    content,   \* crytictofoundry.py: module-level content (the StatementBlock)
    data,      \* fillFile: local data
    ntest,     \* fillFile: local ntest
    target0,   \* history: target as it was when the current run started
    runs,      \* history: number of runs started
    again,     \* outputToSol applied to its own output, or NoFile
    lines,     \* history: the lines example.txt was written from
    contracts, \* create_dict.py: contracts
    fileIdx,   \* create_dict.py: position in the loop over scripts
    txIdx,     \* create_dict.py: transactions read from the open record
    lastTx,    \* history: the transaction stored last, or NoTx
    outfile    \* content of out/addresses.json, or NoFile

vars == <<pc, argv, example, target, folder, content, data, ntest, target0,
          runs, again, lines, contracts, fileIdx, txIdx, lastTx, outfile>>

convVars == <<argv, example, target, folder, content, data, ntest, target0, runs, again, lines>>
dictVars == <<contracts, fileIdx, txIdx, lastTx, outfile>>

NoFile == <<"<no file>">>
NoTx == [transactionType |-> "none"]

(***************************************************************************)
(* Text helpers                                                            *)
(***************************************************************************)
Max(S) == CHOOSE x \in S : \A y \in S : y <= x
Min(S) == CHOOSE x \in S : \A y \in S : x <= y

\* the text of s from position i to its end
Tail_(s, i) == SubSeq(s, i, Len(s))

\* lit occurs in s at position i
MatchAt(s, i, lit) ==
    /\ i >= 1
    /\ i + Len(lit) - 1 <= Len(s)
    /\ \A k \in 1..Len(lit) : s[i + k - 1] = lit[k]

\* the last index of the longest run of characters of S that starts at i
\* (i - 1 when s[i] is not in S)
RunEnd(s, i, S) ==
    IF \E k \in i..Len(s) : s[k] \notin S
    THEN (CHOOSE k \in i..Len(s) : s[k] \notin S /\ \A m \in i..(k - 1) : s[m] \in S) - 1
    ELSE Len(s)

\* the first index >= i holding c, or 0
IndexFrom(s, i, c) ==
    IF \E k \in i..Len(s) : s[k] = c
    THEN CHOOSE k \in i..Len(s) : s[k] = c /\ \A m \in i..(k - 1) : s[m] # c
    ELSE 0

\* the first position >= i at which lit occurs in s, or 0
Find(s, i, lit) ==
    LET hits == {k \in i..Len(s) : MatchAt(s, k, lit)}
    IN IF hits = {} THEN 0 ELSE Min(hits)

RECURSIVE ReplaceFrom(_, _, _, _)
ReplaceFrom(s, i, old, new) ==
    LET m == Find(s, i, old)
    IN IF m = 0 THEN Tail_(s, i)
       ELSE SubSeq(s, i, m - 1) \o new \o ReplaceFrom(s, m + Len(old), old, new)

\* str.replace(old, new), and re.sub of a literal pattern by a literal text:
\* every non-overlapping occurrence, left to right
Replace(s, old, new) == ReplaceFrom(s, 1, old, new)

RECURSIVE CountFrom(_, _, _)
CountFrom(s, i, lit) ==
    LET m == Find(s, i, lit)
    IN IF m = 0 THEN 0 ELSE 1 + CountFrom(s, m + Len(lit), lit)

\* str.count(lit): the number of non-overlapping occurrences
Count(s, lit) == CountFrom(s, 1, lit)

RECURSIVE Str(_)
\* str(n) of a natural number
Str(n) ==
    LET d == <<"0", "1", "2", "3", "4", "5", "6", "7", "8", "9">>
    IN IF n < 10 THEN <<d[n + 1]>> ELSE Str(n \div 10) \o <<d[(n % 10) + 1]>>

(***************************************************************************)
(* Character classes and literals of outputToSol                           *)
(***************************************************************************)
Digits == {"0", "1", "2", "3", "4", "5", "6", "7", "8", "9"}

\* [a-zA-z]: the range A-z also holds the six characters between Z and a
\* (the grave accent is written by name: the lexer does not take it in a string)
AzRange ==
    {"A", "B", "C", "D", "E", "F", "G", "H", "I", "J", "K", "L", "M",
     "N", "O", "P", "Q", "R", "S", "T", "U", "V", "W", "X", "Y", "Z",
     "[", "\\", "]", "^", "_", "<grave accent>",
     "a", "b", "c", "d", "e", "f", "g", "h", "i", "j", "k", "l", "m",
     "n", "o", "p", "q", "r", "s", "t", "u", "v", "w", "x", "y", "z"}

\* [a-fA-F0-9]
HexDigits == Digits \cup {"a", "b", "c", "d", "e", "f", "A", "B", "C", "D", "E", "F"}

WaitMarker == <<"*", "w", "a", "i", "t", "*", " ">>
TimeDelay == <<"T", "i", "m", "e", " ", "d", "e", "l", "a", "y", ":", " ">>
VmWarp == <<"v", "m", ".", "w", "a", "r", "p", "(", "b", "l", "o", "c", "k", ".",
            "t", "i", "m", "e", "s", "t", "a", "m", "p", " ", "+", " ">>
AddressOpen == <<"a", "d", "d", "r", "e", "s", "s", "(", "0", "x">>
Indent4 == <<" ", " ", " ", " ">>
Indent8 == Indent4 \o Indent4

(***************************************************************************)
(* outputToSol: the six rewrite passes                                     *)
(***************************************************************************)
\* data.replace("*wait* ", "")
MarkerStrip(s) == Replace(s, WaitMarker, <<>>)

\* ([a-zA-z]+\(.*\)) (Time delay: .*\n) tried at position i: the set of
\* positions p of a `)` that can close group 1 (the greedy .* takes the last)
ReorderCloses(s, i) ==
    LET j == RunEnd(s, i, AzRange)
        e == IndexFrom(s, j + 2, "\n")
    IN IF j >= i /\ j + 1 <= Len(s) /\ s[j + 1] = "(" /\ e # 0
       THEN {p \in (j + 2)..(e - 1) :
                s[p] = ")" /\ s[p + 1] = " " /\ MatchAt(s, p + 2, TimeDelay)}
       ELSE {}

RECURSIVE ReorderFrom(_, _)
ReorderFrom(s, i) ==
    LET hits == {k \in i..Len(s) : ReorderCloses(s, k) # {}}
    IN IF hits = {} THEN Tail_(s, i)
       ELSE LET m == Min(hits)
                p == Max(ReorderCloses(s, m))
                e == IndexFrom(s, p, "\n")
            IN \* the text before the match, then \2, four spaces, \1, \n
               SubSeq(s, i, m - 1)
                   \o SubSeq(s, p + 2, e) \o Indent4 \o SubSeq(s, m, p) \o <<"\n">>
                   \o ReorderFrom(s, e + 1)

\* re.sub(r"([a-zA-z]+\(.*\)) (Time delay: .*\n)", r"\2    \1\n", data)
AnnotationReorder(s) == ReorderFrom(s, 1)

\* Time delay: (\d+) .*\n tried at position i
DelayMatches(s, i) ==
    LET d == RunEnd(s, i + Len(TimeDelay), Digits)
    IN /\ MatchAt(s, i, TimeDelay)
       /\ d >= i + Len(TimeDelay)
       /\ d + 1 <= Len(s)
       /\ s[d + 1] = " "
       /\ IndexFrom(s, d + 2, "\n") # 0

RECURSIVE DelayFrom(_, _)
DelayFrom(s, i) ==
    LET hits == {k \in i..Len(s) : DelayMatches(s, k)}
    IN IF hits = {} THEN Tail_(s, i)
       ELSE LET m == Min(hits)
                d == RunEnd(s, m + Len(TimeDelay), Digits)
                e == IndexFrom(s, d + 2, "\n")
            IN SubSeq(s, i, m - 1)
                   \o VmWarp \o SubSeq(s, m + Len(TimeDelay), d) \o <<")", "\n">>
                   \o DelayFrom(s, e + 1)

\* re.sub(r"Time delay: (\d+) .*\n", r"vm.warp(block.timestamp + \1)\n", data)
DelayMaterialize(s) == DelayFrom(s, 1)

\* re.sub(r"\)", r");", data)
StatementTerminate(s) == Replace(s, <<")">>, <<")", ";">>)

\* 0x([a-fA-F0-9]+), tried at position i
AddressMatches(s, i) ==
    LET h == RunEnd(s, i + 2, HexDigits)
    IN /\ MatchAt(s, i, <<"0", "x">>)
       /\ h >= i + 2
       /\ h + 1 <= Len(s)
       /\ s[h + 1] = ","

RECURSIVE AddressFrom(_, _)
AddressFrom(s, i) ==
    LET hits == {k \in i..Len(s) : AddressMatches(s, k)}
    IN IF hits = {} THEN Tail_(s, i)
       ELSE LET m == Min(hits)
                h == RunEnd(s, m + 2, HexDigits)
            IN SubSeq(s, i, m - 1)
                   \o AddressOpen \o SubSeq(s, m + 2, h) \o <<")", ",">>
                   \o AddressFrom(s, h + 2)

\* re.sub(r"0x([a-fA-F0-9]+),", r"address(0x\1),", data)
AddressTyping(s) == AddressFrom(s, 1)

\* re.sub(r"    ", r"        ", data)
IndentRenormalize(s) == Replace(s, Indent4, Indent8)

\* outputToSol() on the text read from example.txt
outputToSol(s) ==
    IndentRenormalize(AddressTyping(StatementTerminate(
        DelayMaterialize(AnnotationReorder(MarkerStrip(s))))))

(***************************************************************************)
(* Traces: the lines a fuzz run prints                                     *)
(***************************************************************************)
MaxLines == 2

Idents == {<<"f">>, <<"f", "1">>, <<"_", "g">>}
ArgTexts == {<<>>, <<"0", "x", "A", "b", ",", "1">>, <<"g", "(", "2", ")">>}
DelaySeconds == {0, 10}
Seconds == <<" ", "s", "e", "c", "o", "n", "d", "s">>
BlockDelay == <<" ", "B", "l", "o", "c", "k", " ", "d", "e", "l", "a", "y", ":", " ", "2">>

\* a call line: indentation, marker, identifier(args), and a delay when n > 0
CallLines ==
    [kind : {"call"}, ind : {<<>>, Indent4}, pre : {<<>>, WaitMarker},
     id : Idents, args : ArgTexts, delay : DelaySeconds, nl : {TRUE}]

\* a blank line, and a line that only waits
OtherLines ==
    {[kind |-> "blank", ind |-> <<>>, pre |-> <<>>, id |-> <<>>, args |-> <<>>,
      delay |-> 0, nl |-> TRUE],
     [kind |-> "wait", ind |-> Indent4, pre |-> WaitMarker, id |-> <<>>, args |-> <<>>,
      delay |-> 7, nl |-> TRUE]}

DelayText(n) == TimeDelay \o Str(n) \o Seconds

LineText(l) ==
    (CASE l.kind = "call" ->
            l.ind \o l.pre \o l.id \o <<"(">> \o l.args \o <<")">>
                \o (IF l.delay > 0 THEN <<" ">> \o DelayText(l.delay) ELSE <<>>)
       [] l.kind = "wait" -> l.ind \o l.pre \o DelayText(l.delay) \o BlockDelay
       [] OTHER -> <<>>)
    \o (IF l.nl THEN <<"\n">> ELSE <<>>)

RECURSIVE TraceText(_)
TraceText(ls) == IF ls = <<>> THEN <<>> ELSE LineText(Head(ls)) \o TraceText(Tail(ls))

\* the last line of a trace may lack its line break
Traces ==
    LET full == UNION {[1..n -> CallLines \cup OtherLines] : n \in 0..MaxLines}
    IN full \cup {[ls EXCEPT ![Len(ls)].nl = FALSE] : ls \in full \ {<<>>}}

(***************************************************************************)
(* SpecSol: outputToSol applied to a trace, and to its own output          *)
(***************************************************************************)
InitDict ==
    /\ contracts = <<>>
    /\ fileIdx = 0
    /\ txIdx = 0
    /\ lastTx = NoTx
    /\ outfile = NoFile

InitSol ==
    /\ pc = "sol"
    /\ lines \in Traces
    /\ example = TraceText(lines)
    /\ argv = <<>>
    /\ target = <<>>
    /\ folder = "ig"
    /\ content = NoFile
    /\ again = NoFile
    /\ data = <<>>
    /\ ntest = 0
    /\ target0 = <<>>
    /\ runs = 0
    /\ InitDict

SolConvert ==
    /\ pc = "sol"
    /\ content' = outputToSol(example)
    /\ pc' = "converted"
    /\ UNCHANGED <<argv, example, target, folder, data, ntest, target0, runs, again, lines>>
    /\ UNCHANGED dictVars

SolConvertAgain ==
    /\ pc = "converted"
    /\ again' = outputToSol(content)
    /\ pc' = "reconverted"
    /\ UNCHANGED <<argv, example, target, folder, content, data, ntest, target0, runs, lines>>
    /\ UNCHANGED dictVars

NextSol == SolConvert \/ SolConvertAgain

SpecSol == InitSol /\ [][NextSol]_vars

(***************************************************************************)
(* Claims about outputToSol (checked under SpecSol)                        *)
(***************************************************************************)
RECURSIVE SplitLines(_, _)
\* the lines of s from position i, without their line breaks
SplitLines(s, i) ==
    LET e == IndexFrom(s, i, "\n")
    IN IF e = 0 THEN (IF i > Len(s) THEN <<>> ELSE <<Tail_(s, i)>>)
       ELSE <<SubSeq(s, i, e - 1)>> \o SplitLines(s, e + 1)

\* the number of spaces a line starts with
Depth(l) == RunEnd(l, 1, {" "})

\* a line without the spaces it starts with
Strip(l) == Tail_(l, Depth(l) + 1)

\* C1: outputToSol applied to its own output changes nothing:
\* transform(transform(x)) = transform(x) for every trace text x.
C1_Idempotent == pc = "reconverted" => again = content

\* C8: a `;` stands only right after a `)` that ends a line, and every
\* statement line of the StatementBlock ends with exactly one `;`.
C8_TerminatorOnlyAtLineEnd ==
    pc = "converted" =>
        /\ \A p \in 1..Len(content) :
              content[p] = ";" =>
                  /\ p > 1 /\ content[p - 1] = ")"
                  /\ (p = Len(content) \/ content[p + 1] = "\n")
        /\ \A k \in DOMAIN SplitLines(content, 1) :
              LET l == SplitLines(content, 1)[k]
              IN Strip(l) # <<>> =>
                    /\ l[Len(l)] = ";"
                    /\ Len(l) > 1 /\ l[Len(l) - 1] # ";"

\* the statement a call line stands for: identifier(args); with its
\* address arguments typed
CallStatement(l) == l.id \o <<"(">> \o AddressTyping(l.args) \o <<")", ";">>
WarpStatement(n) == VmWarp \o Str(n) \o <<")", ";">>

\* C9: for every trace line `identifier(args) Time delay: N <unit text>`
\* that ends with a line break, the output holds vm.warp(block.timestamp + N);
\* on its own line immediately before the line holding identifier(args);
C9_WarpBeforeCall ==
    pc = "converted" =>
        \A k \in DOMAIN lines :
            (lines[k].kind = "call" /\ lines[k].delay > 0 /\ lines[k].nl) =>
                \E i \in 1..(Len(SplitLines(content, 1)) - 1) :
                    /\ Strip(SplitLines(content, 1)[i]) = WarpStatement(lines[k].delay)
                    /\ Strip(SplitLines(content, 1)[i + 1]) = CallStatement(lines[k])

\* C10: every statement of the StatementBlock is indented by 8 spaces,
\* whatever the indentation of the trace lines and with or without a delay.
C10_UniformDepth ==
    pc = "converted" =>
        \A k \in DOMAIN SplitLines(content, 1) :
            LET l == SplitLines(content, 1)[k]
            IN Strip(l) # <<>> => Depth(l) = 8

(***************************************************************************)
(* The replacement template of re.sub, as re expands it                    *)
(***************************************************************************)
\* the characters 32..126
Ascii ==
    <<" ", "!", "\"", "#", "$", "%", "&", "'", "(", ")", "*", "+",
      ",", "-", ".", "/", "0", "1", "2", "3", "4", "5", "6", "7",
      "8", "9", ":", ";", "<", "=", ">", "?", "@", "A", "B", "C",
      "D", "E", "F", "G", "H", "I", "J", "K", "L", "M", "N", "O",
      "P", "Q", "R", "S", "T", "U", "V", "W", "X", "Y", "Z", "[",
      "\\", "]", "^", "_", "<grave accent>", "a", "b", "c", "d", "e", "f", "g",
      "h", "i", "j", "k", "l", "m", "n", "o", "p", "q", "r", "s",
      "t", "u", "v", "w", "x", "y", "z", "{", "|", "}", "~">>

RECURSIVE NumS(_)
NumS(n) ==
    LET d == <<"0", "1", "2", "3", "4", "5", "6", "7", "8", "9">>
    IN IF n < 10 THEN d[n + 1] ELSE NumS(n \div 10) \o d[(n % 10) + 1]

\* chr(v); a character that has no one-character text here is written chr(v)
Chr(v) ==
    CASE v = 9 -> "\t"
      [] v = 10 -> "\n"
      [] v = 12 -> "\f"
      [] v = 13 -> "\r"
      [] v \in 32..126 -> Ascii[v - 31]
      [] OTHER -> "chr(" \o NumS(v) \o ")"

OctDigits == {"0", "1", "2", "3", "4", "5", "6", "7"}
AsciiLetters == AzRange \ {"[", "\\", "]", "^", "_", "<grave accent>"}
DigitValue(c) == CHOOSE v \in 0..9 : Str(v) = <<c>>

\* the escapes re knows in a template: \a \b \f \n \r \t \v \\
Escapes ==
    [c \in {"a", "b", "f", "n", "r", "t", "v", "\\"} |->
        CASE c = "a" -> Chr(7) [] c = "b" -> Chr(8) [] c = "f" -> Chr(12)
          [] c = "n" -> Chr(10) [] c = "r" -> Chr(13) [] c = "t" -> Chr(9)
          [] c = "v" -> Chr(11) [] OTHER -> "\\"]

TemplateError == [ok |-> FALSE, text |-> <<>>]

\* the escape that starts at the backslash at position m of template t, for a
\* pattern without groups matched on text `whole`:
\* [ok, text, next]: whether it is valid, what it stands for, where the scan goes on
TemplateEscape(t, m, whole) ==
    LET c == t[m + 1]
        bad == [ok |-> FALSE, text |-> <<>>, next |-> m + 2]
        oct(k) == m + k <= Len(t) /\ t[m + k] \in OctDigits
        z == RunEnd(t, m + 3, {"0"})
    IN CASE c = "g" ->
              \* \g<0> is the whole match; any other group does not exist
              IF m + 2 <= Len(t) /\ t[m + 2] = "<" /\ z >= m + 3
                    /\ z + 1 <= Len(t) /\ t[z + 1] = ">"
              THEN [ok |-> TRUE, text |-> whole, next |-> z + 2]
              ELSE bad
         [] c = "0" ->
              IF oct(2) /\ oct(3)
              THEN [ok |-> TRUE, next |-> m + 4,
                    text |-> <<Chr(8 * DigitValue(t[m + 2]) + DigitValue(t[m + 3]))>>]
              ELSE IF oct(2)
              THEN [ok |-> TRUE, next |-> m + 3, text |-> <<Chr(DigitValue(t[m + 2]))>>]
              ELSE [ok |-> TRUE, next |-> m + 2, text |-> <<Chr(0)>>]
         [] c \in Digits \ {"0"} ->
              \* three octal digits up to \377 are a character; anything else
              \* is a reference to a group, and the pattern has none
              IF oct(1) /\ oct(2) /\ oct(3) /\ DigitValue(c) <= 3
              THEN [ok |-> TRUE, next |-> m + 4,
                    text |-> <<Chr(64 * DigitValue(c) + 8 * DigitValue(t[m + 2])
                                   + DigitValue(t[m + 3]))>>]
              ELSE bad
         [] c \in DOMAIN Escapes -> [ok |-> TRUE, text |-> <<Escapes[c]>>, next |-> m + 2]
         [] c \in AsciiLetters -> bad
         [] OTHER -> [ok |-> TRUE, text |-> <<"\\", c>>, next |-> m + 2]

RECURSIVE ExpandFrom(_, _, _)
ExpandFrom(t, i, whole) ==
    LET m == IndexFrom(t, i, "\\")
    IN IF m = 0 THEN [ok |-> TRUE, text |-> Tail_(t, i)]
       ELSE IF m = Len(t) THEN TemplateError
       ELSE LET esc == TemplateEscape(t, m, whole)
                rest == ExpandFrom(t, esc.next, whole)
            IN IF esc.ok /\ rest.ok
               THEN [ok |-> TRUE, text |-> SubSeq(t, i, m - 1) \o esc.text \o rest.text]
               ELSE TemplateError

\* the text a match is replaced by, or TemplateError when re rejects the template
ExpandTemplate(t, whole) == ExpandFrom(t, 1, whole)

(***************************************************************************)
(* fillFile: the splice                                                    *)
(***************************************************************************)
Function == <<"f", "u", "n", "c", "t", "i", "o", "n">>
Closing == <<"}", "\n", "}">>

\* r"}\n\n    function test_": the raw text, its escapes not yet expanded
TemplateHead ==
    <<"}", "\\", "n", "\\", "n">> \o Indent4 \o Function \o <<" ", "t", "e", "s", "t", "_">>
\* r"() public {\n"
TemplateOpen == <<"(", ")", " ", "p", "u", "b", "l", "i", "c", " ", "{", "\\", "n">>
\* r"    }\n}"
TemplateClose == Indent4 \o <<"}", "\\", "n", "}">>

\* the replacement template of line 34
SpliceTemplate(c, n) == TemplateHead \o Str(n) \o TemplateOpen \o c \o TemplateClose

\* re.sub(r"\}\n\}", template, d): [ok, text]; the template is compiled before
\* the search, so a template re rejects raises whether or not d holds a match
SpliceSub(d, template) ==
    LET r == ExpandTemplate(template, Closing)
    IN IF r.ok THEN [ok |-> TRUE, text |-> Replace(d, Closing, r.text)]
       ELSE TemplateError

\* lines 33-34 of fillFile on the text d read from the target file
Splice(c, d) == SpliceSub(d, SpliceTemplate(c, Count(d, Function)))

(***************************************************************************)
(* Files of a run of crytictofoundry.py                                    *)
(***************************************************************************)
\* a target file: one function, one closing sequence, a final line break
FileSetUp ==
    <<"c", "o", "n", "t", "r", "a", "c", "t", " ", "T", " ", "{", "\n", " ",
      " ", " ", " ", "f", "u", "n", "c", "t", "i", "o", "n", " ", "s", "e",
      "t", "U", "p", "(", ")", " ", "p", "u", "b", "l", "i", "c", " ", "{",
      "\n", " ", " ", " ", " ", "}", "\n", "}", "\n">>

\* a target file: its only function is already named test_1
FileTest1 ==
    <<"c", "o", "n", "t", "r", "a", "c", "t", " ", "T", " ", "{", "\n", " ",
      " ", " ", " ", "f", "u", "n", "c", "t", "i", "o", "n", " ", "t", "e",
      "s", "t", "_", "1", "(", ")", " ", "p", "u", "b", "l", "i", "c", " ",
      "{", "\n", " ", " ", " ", " ", "}", "\n", "}">>

\* a target file: a blank line stands between the two closing braces
FileReformatted ==
    <<"c", "o", "n", "t", "r", "a", "c", "t", " ", "T", " ", "{", "\n", " ",
      " ", " ", " ", "f", "u", "n", "c", "t", "i", "o", "n", " ", "s", "e",
      "t", "U", "p", "(", ")", " ", "p", "u", "b", "l", "i", "c", " ", "{",
      "\n", " ", " ", " ", " ", "}", "\n", "\n", "}">>

\* a target file: two containers, so two closing sequences
FileTwoContracts ==
    <<"l", "i", "b", "r", "a", "r", "y", " ", "L", " ", "{", "\n", " ", " ",
      " ", " ", "f", "u", "n", "c", "t", "i", "o", "n", " ", "f", "(", ")",
      " ", "i", "n", "t", "e", "r", "n", "a", "l", " ", "{", "\n", " ", " ",
      " ", " ", "}", "\n", "}", "\n", "c", "o", "n", "t", "r", "a", "c", "t",
      " ", "T", " ", "{", "\n", " ", " ", " ", " ", "f", "u", "n", "c", "t",
      "i", "o", "n", " ", "s", "e", "t", "U", "p", "(", ")", " ", "p", "u",
      "b", "l", "i", "c", " ", "{", "\n", " ", " ", " ", " ", "}", "\n", "}">>

\* a trace: one call
TraceCall ==
    <<"f", "(", ")", "\n">>

\* a trace: an indented call with an address and a delay
TraceDelayed ==
    <<" ", " ", " ", " ", "f", "(", "0", "x", "A", "b", ",", ")", " ", "T",
      "i", "m", "e", " ", "d", "e", "l", "a", "y", ":", " ", "1", "0", " ",
      "s", "e", "c", "o", "n", "d", "s", "\n">>

\* a trace: a call whose string argument holds a backslash escape
TraceEscape ==
    <<"g", "(", "\"", "\\", "q", "\"", ")", "\n">>

TargetFiles == {FileSetUp, FileTest1, FileReformatted, FileTwoContracts}
ExampleFiles == {<<>>, TraceCall, TraceDelayed, TraceEscape}
Folders == {"ig", "vault"}
Script == "crytictofoundry.py"
Argvs == {<<Script>>, <<Script, "ig">>, <<Script, "vault">>}

MaxRuns == 2

(***************************************************************************)
(* SpecRun: runs of crytictofoundry.py, statement by statement             *)
(***************************************************************************)
Failed == {"IndexError", "FileNotFoundError: example.txt",
           "FileNotFoundError: CryticToFoundry.t.sol", "re.error"}

InitRun ==
    /\ pc = "start"
    /\ argv \in Argvs
    /\ example \in ExampleFiles \cup {NoFile}
    /\ target \in [Folders -> TargetFiles \cup {NoFile}]
    /\ target["vault"] \in {NoFile, FileSetUp}
    /\ target0 = target
    /\ folder = "ig"
    /\ content = NoFile
    /\ data = <<>>
    /\ ntest = 0
    /\ runs = 1
    /\ again = NoFile
    /\ lines = <<>>
    /\ InitDict

\* lines 4-6: folder = "ig"; if len(sys.argv): folder = sys.argv[1]
\* (sys.argv[0], the script name, is argv[1] here; sys.argv[1] is argv[2])
SelectFolder ==
    /\ pc = "start"
    /\ IF Len(argv) # 0
       THEN IF Len(argv) >= 2
            THEN folder' = argv[2] /\ pc' = "folder"
            ELSE folder' = "ig" /\ pc' = "IndexError"
       ELSE folder' = "ig" /\ pc' = "folder"
    /\ UNCHANGED <<argv, example, target, content, data, ntest, target0, runs, again, lines>>
    /\ UNCHANGED dictVars

\* line 40: content = outputToSol()
RunOutputToSol ==
    /\ pc = "folder"
    /\ IF example = NoFile
       THEN content' = content /\ pc' = "FileNotFoundError: example.txt"
       ELSE content' = outputToSol(example) /\ pc' = "content"
    /\ UNCHANGED <<argv, example, target, folder, data, ntest, target0, runs, again, lines>>
    /\ UNCHANGED dictVars

\* fillFile opening the target file in a mode that empties it before the read
FillFileReadTruncating ==
    /\ pc = "content"
    /\ IF target[folder] = NoFile
       THEN data' = data /\ target' = target
            /\ pc' = "FileNotFoundError: CryticToFoundry.t.sol"
       ELSE data' = target[folder] /\ target' = [target EXCEPT ![folder] = <<>>]
            /\ pc' = "read"
    /\ UNCHANGED <<argv, example, folder, content, ntest, target0, runs, again, lines>>
    /\ UNCHANGED dictVars

\* lines 31-32: open the target file for reading; data = file.read()
FillFileRead ==
    /\ pc = "content"
    /\ IF target[folder] = NoFile
       THEN data' = data /\ pc' = "FileNotFoundError: CryticToFoundry.t.sol"
       ELSE data' = target[folder] /\ pc' = "read"
    /\ UNCHANGED <<argv, example, target, folder, content, ntest, target0, runs, again, lines>>
    /\ UNCHANGED dictVars

\* lines 33-34: ntest = data.count("function"); data = re.sub(...)
FillFileSub ==
    /\ pc = "read"
    /\ ntest' = Count(data, Function)
    /\ IF Splice(content, data).ok
       THEN data' = Splice(content, data).text /\ pc' = "spliced"
       ELSE data' = data /\ pc' = "re.error"
    /\ UNCHANGED <<argv, example, target, folder, content, target0, runs, again, lines>>
    /\ UNCHANGED dictVars

\* line 36: open the target file for writing, which empties it
FillFileOpenWrite ==
    /\ pc = "spliced"
    /\ target' = [target EXCEPT ![folder] = <<>>]
    /\ pc' = "writing"
    /\ UNCHANGED <<argv, example, folder, content, data, ntest, target0, runs, again, lines>>
    /\ UNCHANGED dictVars

\* line 37: file.write(data)
FillFileWrite ==
    /\ pc = "writing"
    /\ target' = [target EXCEPT ![folder] = data]
    /\ pc' = "done"
    /\ UNCHANGED <<argv, example, folder, content, data, ntest, target0, runs, again, lines>>
    /\ UNCHANGED dictVars

\* the script is started again, with any arguments, on the files as they are
StartAgain ==
    /\ pc \in Failed \cup {"done"}
    /\ runs < MaxRuns
    /\ runs' = runs + 1
    /\ argv' \in Argvs
    /\ target0' = target
    /\ pc' = "start"
    /\ folder' = "ig"
    /\ content' = NoFile
    /\ data' = <<>>
    /\ ntest' = 0
    /\ UNCHANGED <<example, target, again, lines>>
    /\ UNCHANGED dictVars

NextRun ==
    \/ SelectFolder
    \/ RunOutputToSol
    \/ FillFileRead
    \/ FillFileSub
    \/ FillFileOpenWrite
    \/ FillFileWrite
    \/ StartAgain

SpecRun == InitRun /\ [][NextRun]_vars

(***************************************************************************)
(* Claims about a run of crytictofoundry.py (checked under SpecRun)        *)
(***************************************************************************)
\* C2: started with no positional argument, the script selects the folder
\* `ig` and goes on; the missing argument never makes the run fail.
C2_DefaultFolder ==
    (Len(argv) < 2 /\ pc # "start") => (pc # "IndexError" /\ folder = "ig")

\* the text the splice is said to produce from d: one new function test_n
\* with body c, placed at the last closing sequence of d, and nothing else
SpliceAtLast(c, d) ==
    LET last == Max({k \in 1..Len(d) : MatchAt(d, k, Closing)})
    IN SubSeq(d, 1, last - 1)
           \o <<"}", "\n", "\n">> \o Indent4 \o Function \o <<" ", "t", "e", "s", "t", "_">>
           \o Str(Count(d, Function))
           \o <<"(", ")", " ", "p", "u", "b", "l", "i", "c", " ", "{", "\n">>
           \o c \o Indent4 \o Closing
           \o Tail_(d, last + Len(Closing))

\* C3: on a target file that holds the closing sequence once or more, one run
\* of fillFile adds exactly one test function, before the last occurrence of
\* the sequence, and leaves every other occurrence and all other text alone.
C3_OneFunctionAtLastClosing ==
    (pc = "done" /\ Count(target0[folder], Closing) >= 1) =>
        target[folder] = SpliceAtLast(content, target0[folder])

\* the declaration of the function fillFile named in this run
NewDeclaration == Function \o <<" ", "t", "e", "s", "t", "_">> \o Str(ntest) \o <<"(">>

\* C4: after any runs of fillFile, from any file content, the name test_n of
\* a newly inserted function is the name of no other function of the file.
C4_FreshName ==
    (pc = "done" /\ Count(target0[folder], Closing) >= 1) =>
        Count(target[folder], NewDeclaration) = 1

\* C5: the target file is written only after the trace file and the target
\* file were read and the new content was computed; a run that fails before
\* the write leaves every target file as it was when the run started.
C5_WriteOnlyAfterCompute ==
    /\ target # target0 => pc \in {"writing", "done"}
    /\ pc \in Failed => target = target0

\* a run that read an existing target file and then failed in the splice
C5_Witness ==
    /\ pc = "re.error"
    /\ target0[folder] # NoFile
    /\ data = target0[folder]

\* C6: when the target file does not hold the closing sequence, fillFile
\* raises no error, inserts no function and writes back what it read.
C6_NoClosingNoError ==
    /\ (pc = "re.error" => Count(data, Closing) >= 1)
    /\ (pc = "done" /\ Count(target0[folder], Closing) = 0) =>
           target[folder] = target0[folder]

(***************************************************************************)
(* SpecDict: a run of create_dict.py                                       *)
(***************************************************************************)
\* lines 8-12: the records read, in the order of the loops of lines 22-23
scripts ==
    <<<<"01_CoreFoundations.s.sol", "run">>,
      <<"02_Token.s.sol", "deployToken">>,
      <<"03_Factory.s.sol", "createIGMarket">>>>

\* the transactions one record may hold
MaxTx == 2

Transactions ==
    [transactionType : {"CREATE", "CALL"},
     contractName : {"TestnetToken", "Vault"},
     contractAddress : {"0xA1", "0xB2"},
     arguments : {<<>>, <<"USD Coin", "USDC">>, <<"Wrapped Ether", "WETH">>}]

\* tx['arguments'][1] exists
HasSecondArgument(tx) == Len(tx.arguments) >= 2

\* the renaming of line 29 without its TestnetToken case
contract_name_unrenamed(tx) == tx.contractName

\* line 29: tx['arguments'][1] if tx['contractName'] == "TestnetToken" else
\* tx['contractName'] (the element of Python index 1 is the second one)
contract_name(tx) ==
    IF tx.contractName = "TestnetToken" THEN tx.arguments[2] ELSE tx.contractName

\* contracts[key] = value
DictSet(d, key, value) ==
    [k \in DOMAIN d \cup {key} |-> IF k = key THEN value ELSE d[k]]

InitDictRun ==
    /\ pc = "open"
    /\ contracts = <<>>
    /\ fileIdx = 1
    /\ txIdx = 0
    /\ lastTx = NoTx
    /\ outfile = NoFile
    /\ argv = <<>>
    /\ example = NoFile
    /\ target = <<>>
    /\ target0 = <<>>
    /\ folder = "ig"
    /\ content = NoFile
    /\ data = <<>>
    /\ ntest = 0
    /\ runs = 0
    /\ again = NoFile
    /\ lines = <<>>

\* lines 24-25: open and load the record of scripts[fileIdx], when it exists
OpenRecord ==
    /\ pc = "open"
    /\ \E exists \in BOOLEAN :
          pc' = IF exists THEN "transactions" ELSE "FileNotFoundError: broadcast"
    /\ txIdx' = 0
    /\ UNCHANGED <<contracts, fileIdx, lastTx, outfile>>
    /\ UNCHANGED convVars

\* lines 27-30 for the next transaction of the record when it is a CREATE
StoreTx ==
    /\ pc = "transactions"
    /\ txIdx < MaxTx
    /\ \E tx \in Transactions :
          /\ tx.transactionType = "CREATE"
          /\ IF tx.contractName = "TestnetToken" /\ ~HasSecondArgument(tx)
             THEN /\ pc' = "IndexError: arguments"
                  /\ UNCHANGED <<contracts, lastTx>>
             ELSE /\ contracts' = DictSet(contracts, contract_name(tx), tx.contractAddress)
                  /\ lastTx' = tx
                  /\ pc' = pc
    /\ txIdx' = txIdx + 1
    /\ UNCHANGED <<fileIdx, outfile>>
    /\ UNCHANGED convVars

\* line 27 for the next transaction of the record when it is no CREATE
SkipTx ==
    /\ pc = "transactions"
    /\ txIdx < MaxTx
    /\ \E tx \in Transactions : tx.transactionType # "CREATE"
    /\ txIdx' = txIdx + 1
    /\ UNCHANGED <<pc, contracts, fileIdx, lastTx, outfile>>
    /\ UNCHANGED convVars

\* line 33, and the next round of the loops of lines 22-23
CloseRecord ==
    /\ pc = "transactions"
    /\ fileIdx' = fileIdx + 1
    /\ pc' = IF fileIdx < Len(scripts) THEN "open" ELSE "dump"
    /\ txIdx' = 0
    /\ UNCHANGED <<contracts, lastTx, outfile>>
    /\ UNCHANGED convVars

\* lines 36-37: json.dump(contracts, outfile)
DumpJson ==
    /\ pc = "dump"
    /\ outfile' = contracts
    /\ pc' = "written"
    /\ UNCHANGED <<contracts, fileIdx, txIdx, lastTx>>
    /\ UNCHANGED convVars

NextDict == OpenRecord \/ StoreTx \/ SkipTx \/ CloseRecord \/ DumpJson

SpecDict == InitDictRun /\ [][NextDict]_vars

(***************************************************************************)
(* Every script and every input together                                   *)
(***************************************************************************)
Init == InitSol \/ InitRun \/ InitDictRun

Next == NextSol \/ NextRun \/ NextDict

Spec == Init /\ [][Next]_vars

(***************************************************************************)
(* Claims about create_dict.py (checked under SpecDict)                    *)
(***************************************************************************)
Stored(key, tx) == key \in DOMAIN contracts /\ contracts[key] = tx.contractAddress

\* C7 as stated: a CREATE of TestnetToken is stored under its first
\* constructor argument (arguments element 0); any other CREATE under its
\* contractName.
C7_KeyIsFirstArgument ==
    lastTx # NoTx =>
        IF lastTx.contractName = "TestnetToken"
        THEN Stored(lastTx.arguments[1], lastTx)
        ELSE Stored(lastTx.contractName, lastTx)

\* C7 as amended: a CREATE of TestnetToken is stored under its second
\* constructor argument (arguments element 1); any other CREATE under its
\* contractName.
C7_KeyIsSecondArgument ==
    lastTx # NoTx =>
        IF lastTx.contractName = "TestnetToken"
        THEN Stored(lastTx.arguments[2], lastTx)
        ELSE Stored(lastTx.contractName, lastTx)

\* a TestnetToken was stored after a contract of another name
C7_Witness ==
    /\ lastTx # NoTx
    /\ lastTx.contractName = "TestnetToken"
    /\ "Vault" \in DOMAIN contracts
    /\ lastTx.arguments[2] \in DOMAIN contracts

====
